---- MODULE Spec2Model ----
(***************************************************************************)
(* State-machine model of the TRIE_STORE run of src/src/main.rs: the       *)
(* explicit-stack walk over the trie records of an LMDB table, the leaf    *)
(* statistics (log_trie_leaf_stats), the chained deletion of EraInfo       *)
(* leaves through engine_state.delete_key, and the report written at the   *)
(* end.  The store contents are the input of a run: Init draws them from   *)
(* every assignment of records to a small set of digests, including        *)
(* missing records, undecodable records, shared subtrees and cycles.       *)
(***************************************************************************)
EXTENDS Integers, Sequences, FiniteSets, TLC

\* ------------------------------------------------------------------ bounds
NumDigests == 3          \* digests 0 .. NumDigests-1 may hold a record
MaxChildren == 2         \* pointers of a Trie::Node record
MaxKeyId == 2            \* distinct keys per key tag
MaxLen == 2              \* byte length of a leaf record
MaxPops == 8             \* iterations of the loop that are explored

\* ------------------------------------------------------------------ data
Digests == 0 .. (NumDigests - 1)

\* The starting root (Digest::from_hex of the -s option).  Digests are
\* interchangeable, so the root is the first one.
state_root == 0

KeyTags == {"EraInfo", "Account"}
ValueTags == {"EraInfo", "Account"}
Keys == [tag : KeyTags, id : 1 .. MaxKeyId]

\* Sequences over S of length 0 .. n
RECURSIVE SeqsUpTo(_, _)
SeqsUpTo(S, n) ==
    IF n = 0 THEN {<<>>}
    ELSE LET shorter == SeqsUpTo(S, n - 1)
         IN  shorter \cup {Append(s, x) : s \in {t \in shorter : Len(t) = n - 1}, x \in S}

\* What txn.get followed by Trie::from_bytes yields for one digest.
Records ==
    {[kind |-> "Absent"], [kind |-> "Bad"]}
    \cup [kind : {"Leaf"}, key : Keys, value : ValueTags, len : 1 .. MaxLen]
    \cup [kind : {"Extension"}, pointer : Digests]
    \cup [kind : {"Node"}, pointers : SeqsUpTo(Digests, MaxChildren)]

\* bytes.len() of a stored record: a leaf carries its own length, the other
\* records one tag byte and one unit per pointer.
ByteLen(rec) ==
    CASE rec.kind = "Leaf" -> rec.len
      [] rec.kind = "Extension" -> 2
      [] rec.kind = "Node" -> 1 + Len(rec.pointers)
      [] OTHER -> 1

\* Key::type_string and StoredValue::type_name
type_string(key) == key.tag
type_name(value) == value

\* The digests a record points to, in the order the loop pushes them.
Pointers(rec) ==
    CASE rec.kind = "Extension" -> <<rec.pointer>>
      [] rec.kind = "Node" -> rec.pointers
      [] OTHER -> <<>>

\* HashMap::entry(k).or_default() on a map kept as a function
EmptyMap == <<>>
Get(m, k, default) == IF k \in DOMAIN m THEN m[k] ELSE default
Put(m, k, v) == [x \in (DOMAIN m) \cup {k} |-> IF x = k THEN v ELSE m[x]]

RECURSIVE SumOver(_, _)
SumOver(f, S) ==
    IF S = {} THEN 0
    ELSE LET x == CHOOSE y \in S : TRUE IN f[x] + SumOver(f, S \ {x})
MapSum(m) == SumOver(m, DOMAIN m)

RECURSIVE SeqSum(_)
SeqSum(s) == IF s = <<>> THEN 0 ELSE s[1] + SeqSum(Tail(s))

SeqMax(s) == CHOOSE m \in {s[i] : i \in DOMAIN s} : \A i \in DOMAIN s : s[i] <= m

VARIABLES
    store,              \* the table as the read-only transaction sees it
    file,               \* the report file: whether it exists, and its lines
    pc,                 \* "start", "loop", "done", "panicked"
    unvisited_nodes,
    key_tags,
    stored_value_tags,
    trie_lengths,
    deleted_era_info,
    new_root_hash,
    largest_record,
    record_count,
    stdout,             \* the lines printed
    committed,          \* the roots the engine has written
    popped,             \* history: the digests popped, in order
    delete_log,         \* history: the delete_key calls and their results
    root_writes         \* history: assignments to new_root_hash in the loop

vars == <<store, file, pc, unvisited_nodes, key_tags, stored_value_tags,
          trie_lengths, deleted_era_info, new_root_hash, largest_record,
          record_count, stdout, committed, popped, delete_log, root_writes>>

\* ------------------------------------------------------- mutation service
\* A root digest of the execution engine, named by its content: the trie
\* under the record `base` without the leaves whose key is in `deleted`.
Root(d) == [base |-> d, deleted |-> {}]

RECURSIVE ReachFrom(_, _)
ReachFrom(S, st) ==
    LET step == S \cup UNION {{Pointers(st[d])[i] : i \in DOMAIN Pointers(st[d])} : d \in S}
    IN  IF step = S THEN S ELSE ReachFrom(step, st)

Reachable(d, st) == ReachFrom({d}, st)

\* The leaves of the trie under a root of the engine.
RootLeaves(root, st) ==
    {st[d] : d \in {e \in Reachable(root.base, st) :
                        st[e].kind = "Leaf" /\ st[e].key \notin root.deleted}}

\* engine_state.delete_key(correlation_id, root, key): the results the
\* engine may give.  Deleted carries the root of the trie without the key;
\* a key that is not under the root gives DoesNotExist; RootNotFound and Err
\* stand for the failures of the engine's own storage.
delete_key(root, key, st) ==
    {IF \E l \in RootLeaves(root, st) : l.key = key
     THEN [kind |-> "Deleted",
           root |-> [base |-> root.base, deleted |-> root.deleted \cup {key}]]
     ELSE [kind |-> "DoesNotExist", root |-> root]}
    \cup {[kind |-> "RootNotFound", root |-> root], [kind |-> "Err", root |-> root]}

\* ------------------------------------------------------------------ Init
\* main up to the test of db_name: the table is open, the read transaction
\* has begun, the counters and maps are empty, nothing of the TRIE_STORE
\* branch has run.  The report file may be left over from an earlier run.
Init ==
    /\ store \in [Digests -> Records]
    /\ file \in {[exists |-> FALSE, lines |-> <<>>],
                 [exists |-> TRUE, lines |-> <<[line |-> "old"]>>]}
    /\ pc = "start"
    /\ unvisited_nodes = <<>>
    /\ key_tags = EmptyMap
    /\ stored_value_tags = EmptyMap
    /\ trie_lengths = EmptyMap
    /\ deleted_era_info = 0
    /\ new_root_hash = Root(state_root)
    /\ largest_record = 0
    /\ record_count = 0
    /\ stdout = <<[line |-> "scanning"]>>
    /\ committed = {}
    /\ popped = <<>>
    /\ delete_log = <<>>
    /\ root_writes = 0

\* ------------------------------------------------------------- operations
\* Lines 74-86: the report file is created (truncated when it exists), the
\* frontier is seeded with the state root, the engine is loaded.
Start ==
    /\ pc = "start"
    /\ stdout' = Append(stdout, [line |-> "will_write"])
    /\ file' = [exists |-> TRUE, lines |-> <<>>]
    /\ unvisited_nodes' = <<state_root>>
    /\ deleted_era_info' = 0
    /\ new_root_hash' = Root(state_root)
    /\ pc' = "loop"
    /\ UNCHANGED <<store, key_tags, stored_value_tags, trie_lengths, largest_record,
                   record_count, committed, popped, delete_log, root_writes>>

\* A loop that reads the last element without taking it off (Vec::last)
Pop_Peek(stack) == stack

\* Vec::pop: the last element
Top(stack) == stack[Len(stack)]
Pop(stack) == SubSeq(stack, 1, Len(stack) - 1)

\* Lines 92-96
LargestAfter(largest, byte_len) == IF largest < byte_len THEN byte_len ELSE largest
PrintLargest(out, largest, byte_len) ==
    IF largest < byte_len THEN Append(out, [line |-> "largest", n |-> byte_len]) ELSE out

CanPop == pc = "loop" /\ unvisited_nodes # <<>> /\ Len(popped) < MaxPops

\* A loop that skips a digest without a record
PopMissing_Skip ==
    /\ CanPop
    /\ store[Top(unvisited_nodes)].kind = "Absent"
    /\ unvisited_nodes' = Pop(unvisited_nodes)
    /\ popped' = Append(popped, Top(unvisited_nodes))
    /\ UNCHANGED <<store, file, pc, key_tags, stored_value_tags, trie_lengths,
                   deleted_era_info, new_root_hash, largest_record, record_count,
                   stdout, committed, delete_log, root_writes>>

\* Lines 87-90: txn.get fails, expect panics.
PopMissing ==
    /\ CanPop
    /\ store[Top(unvisited_nodes)].kind = "Absent"
    /\ unvisited_nodes' = Pop(unvisited_nodes)
    /\ popped' = Append(popped, Top(unvisited_nodes))
    /\ pc' = "panicked"
    /\ UNCHANGED <<store, file, key_tags, stored_value_tags, trie_lengths,
                   deleted_era_info, new_root_hash, largest_record, record_count,
                   stdout, committed, delete_log, root_writes>>

\* Lines 87-98: the record is read and measured, from_bytes fails, expect panics.
PopUndecodable ==
    /\ CanPop
    /\ LET digest == Top(unvisited_nodes)
           byte_len == ByteLen(store[digest])
       IN  /\ store[digest].kind = "Bad"
           /\ unvisited_nodes' = Pop(unvisited_nodes)
           /\ popped' = Append(popped, digest)
           /\ largest_record' = LargestAfter(largest_record, byte_len)
           /\ stdout' = PrintLargest(stdout, largest_record, byte_len)
    /\ pc' = "panicked"
    /\ UNCHANGED <<store, file, key_tags, stored_value_tags, trie_lengths,
                   deleted_era_info, new_root_hash, record_count,
                   committed, delete_log, root_writes>>

\* log_trie_leaf_stats that forgets the value tag
log_trie_leaf_stats_KeyOnly(trie_key, trie_value, kt, svt, tl, byte_len) ==
    LET key_tag == type_string(trie_key)
        stored_value_tag == type_name(trie_value)
        pair == <<key_tag, stored_value_tag>>
    IN  [key_tags |-> Put(kt, key_tag, Get(kt, key_tag, 0) + 1),
         stored_value_tags |-> svt,
         trie_lengths |-> Put(tl, pair, Append(Get(tl, pair, <<>>), byte_len))]

\* log_trie_leaf_stats that inserts 1 instead of adding 1
log_trie_leaf_stats_Insert(trie_key, trie_value, kt, svt, tl, byte_len) ==
    LET key_tag == type_string(trie_key)
        stored_value_tag == type_name(trie_value)
        pair == <<key_tag, stored_value_tag>>
    IN  [key_tags |-> Put(kt, key_tag, 1),
         stored_value_tags |-> Put(svt, stored_value_tag, 1),
         trie_lengths |-> Put(tl, pair, Append(Get(tl, pair, <<>>), byte_len))]

\* Lines 197-213, as the three maps after the call.
log_trie_leaf_stats(trie_key, trie_value, kt, svt, tl, byte_len) ==
    LET key_tag == type_string(trie_key)
        stored_value_tag == type_name(trie_value)
        pair == <<key_tag, stored_value_tag>>
    IN  [key_tags |-> Put(kt, key_tag, Get(kt, key_tag, 0) + 1),
         stored_value_tags |-> Put(svt, stored_value_tag, Get(svt, stored_value_tag, 0) + 1),
         trie_lengths |-> Put(tl, pair, Append(Get(tl, pair, <<>>), byte_len))]

\* A test that takes every key for an EraInfo key
IsEraInfo_AnyKey(key) == key.tag \in KeyTags

\* A test that takes only the first era for an EraInfo key
IsEraInfo_FirstEra(key) == key.tag = "EraInfo" /\ key.id = 1

\* Line 113: if let Key::EraInfo(_) = trie_key
IsEraInfo(key) == key.tag = "EraInfo"

\* delete_key called with the starting root every time
DeleteRoot_Start(current, start) == start

\* Line 121: the root handed to delete_key
DeleteRoot(current, start) == current

\* A match that lets a key that is not there pass
DeleteArm_IgnoreMissing(result) ==
    IF result.kind \in {"Deleted", "DoesNotExist"} THEN "loop" ELSE "panicked"

\* Lines 124-134: the loop goes on after Ok(Deleted(root)); every other
\* result panics.
DeleteArm(result) == IF result.kind = "Deleted" THEN "loop" ELSE "panicked"

\* A match whose Node arm pushes the first pointer only
Expand_FirstOnly(stack, rec) ==
    CASE rec.kind = "Node" ->
            IF rec.pointers = <<>> THEN stack ELSE Append(stack, rec.pointers[1])
      [] rec.kind = "Extension" -> Append(stack, rec.pointer)
      [] OTHER -> stack

\* A match whose Leaf arm drops the frontier once an EraInfo leaf is deleted
Expand_DropAfterEraInfo(stack, rec) ==
    CASE rec.kind = "Node" -> stack \o rec.pointers
      [] rec.kind = "Extension" -> Append(stack, rec.pointer)
      [] rec.kind = "Leaf" /\ rec.key.tag = "EraInfo" -> <<>>
      [] OTHER -> stack

\* A match whose Node arm pushes the pointers in descending index order
RECURSIVE Reverse(_)
Reverse(seq) == IF seq = <<>> THEN <<>> ELSE Append(Reverse(Tail(seq)), seq[1])
Expand_Descending(stack, rec) ==
    CASE rec.kind = "Node" -> stack \o Reverse(rec.pointers)
      [] rec.kind = "Extension" -> Append(stack, rec.pointer)
      [] OTHER -> stack

\* Lines 100-144, the frontier after the match on the decoded node: a leaf
\* pushes nothing, a node appends its pointers in index order, an extension
\* pushes its pointer.
Expand(stack, rec) ==
    CASE rec.kind = "Node" -> stack \o rec.pointers
      [] rec.kind = "Extension" -> Append(stack, rec.pointer)
      [] OTHER -> stack

\* Lines 101-136: a leaf is logged; an EraInfo leaf is then deleted under the
\* current root, and anything but Deleted panics.
VisitLeaf ==
    /\ CanPop
    /\ LET digest == Top(unvisited_nodes)
           rec == store[digest]
           byte_len == ByteLen(rec)
       IN  /\ rec.kind = "Leaf"
           /\ unvisited_nodes' = Expand(Pop(unvisited_nodes), rec)
           /\ popped' = Append(popped, digest)
           /\ largest_record' = LargestAfter(largest_record, byte_len)
           /\ stdout' = PrintLargest(stdout, largest_record, byte_len)
           /\ LET after == log_trie_leaf_stats(rec.key, rec.value, key_tags,
                                               stored_value_tags, trie_lengths, byte_len)
              IN  /\ key_tags' = after.key_tags
                  /\ stored_value_tags' = after.stored_value_tags
                  /\ trie_lengths' = after.trie_lengths
           /\ IF IsEraInfo(rec.key)
              THEN LET root == DeleteRoot(new_root_hash, Root(state_root))
                   IN  \E result \in delete_key(root, rec.key, store) :
                          /\ delete_log' = Append(delete_log,
                                 [root |-> root, key |-> rec.key, result |-> result])
                          /\ committed' = IF result.kind = "Deleted"
                                           THEN committed \cup {result.root}
                                           ELSE committed
                          /\ pc' = DeleteArm(result)
                          /\ IF DeleteArm(result) = "loop"
                             THEN /\ deleted_era_info' = deleted_era_info + 1
                                  /\ new_root_hash' = result.root
                                  /\ root_writes' = root_writes + 1
                             ELSE UNCHANGED <<deleted_era_info, new_root_hash, root_writes>>
              ELSE UNCHANGED <<delete_log, committed, deleted_era_info, new_root_hash,
                               root_writes, pc>>
    /\ UNCHANGED <<store, file, record_count>>

\* Lines 137-142: every pointer of the block is appended, in index order.
VisitNode ==
    /\ CanPop
    /\ LET digest == Top(unvisited_nodes)
           rec == store[digest]
           byte_len == ByteLen(rec)
       IN  /\ rec.kind = "Node"
           /\ unvisited_nodes' = Expand(Pop(unvisited_nodes), rec)
           /\ popped' = Append(popped, digest)
           /\ largest_record' = LargestAfter(largest_record, byte_len)
           /\ stdout' = PrintLargest(stdout, largest_record, byte_len)
    /\ UNCHANGED <<store, file, pc, key_tags, stored_value_tags, trie_lengths,
                   deleted_era_info, new_root_hash, record_count,
                   committed, delete_log, root_writes>>

\* Line 143
VisitExtension ==
    /\ CanPop
    /\ LET digest == Top(unvisited_nodes)
           rec == store[digest]
           byte_len == ByteLen(rec)
       IN  /\ rec.kind = "Extension"
           /\ unvisited_nodes' = Expand(Pop(unvisited_nodes), rec)
           /\ popped' = Append(popped, digest)
           /\ largest_record' = LargestAfter(largest_record, byte_len)
           /\ stdout' = PrintLargest(stdout, largest_record, byte_len)
    /\ UNCHANGED <<store, file, pc, key_tags, stored_value_tags, trie_lengths,
                   deleted_era_info, new_root_hash, record_count,
                   committed, delete_log, root_writes>>

\* The orders in which a HashMap may hand out the keys in S
RECURSIVE Orders(_)
Orders(S) ==
    IF S = {} THEN {<<>>}
    ELSE UNION {{<<x>> \o o : o \in Orders(S \ {x})} : x \in S}

\* Lines 150-159: one row per entry of a count map
CountRows(section, m, order) ==
    [i \in 1 .. Len(order) |->
        [line |-> section, tag |-> order[i], count |-> m[order[i]]]]

\* A row that takes the last length for the largest
LengthRow_LastAsMax(pair, lengths) ==
    LET total_len == SeqSum(lengths)
    IN  [line |-> "lengths", key_tag |-> pair[1], stored_value_tag |-> pair[2],
         average_len |-> total_len \div Len(lengths),
         max_len |-> lengths[Len(lengths)],
         total_len |-> total_len]

\* Lines 166-179: one row per pair that has lengths
LengthRow(pair, lengths) ==
    LET total_len == SeqSum(lengths)
    IN  [line |-> "lengths", key_tag |-> pair[1], stored_value_tag |-> pair[2],
         average_len |-> total_len \div Len(lengths),
         max_len |-> SeqMax(lengths),
         total_len |-> total_len]

RECURSIVE LengthRows(_, _)
LengthRows(tl, order) ==
    IF order = <<>> THEN <<>>
    ELSE IF tl[order[1]] = <<>>
         THEN LengthRows(tl, Tail(order))
         ELSE <<LengthRow(order[1], tl[order[1]])>> \o LengthRows(tl, Tail(order))

\* A report that writes the value-tag section first
ReportLines_ValueFirst(kt, svt, tl, ko, vo, lo) ==
    <<[line |-> "header", section |-> "stored_value_tag"]>>
    \o CountRows("stored_value_tag", svt, vo)
    \o <<[line |-> "header", section |-> "key_tag"]>>
    \o CountRows("key_tag", kt, ko)
    \o <<[line |-> "header", section |-> "lengths"]>>
    \o LengthRows(tl, lo)

\* Lines 150-179: the lines written to report_writer, the maps being handed
\* out in the orders ko, vo and lo.
ReportLines(kt, svt, tl, ko, vo, lo) ==
    <<[line |-> "header", section |-> "key_tag"]>>
    \o CountRows("key_tag", kt, ko)
    \o <<[line |-> "header", section |-> "stored_value_tag"]>>
    \o CountRows("stored_value_tag", svt, vo)
    \o <<[line |-> "header", section |-> "lengths"]>>
    \o LengthRows(tl, lo)

\* Lines 146-192: the frontier is empty; the count of deletions is printed,
\* the three sections are written to the report, the record count is printed.
Finish ==
    /\ pc = "loop"
    /\ unvisited_nodes = <<>>
    /\ record_count' = record_count + 1
    /\ stdout' = stdout \o <<[line |-> "deleted", n |-> deleted_era_info],
                             [line |-> "processed", n |-> record_count + 1]>>
    /\ \E ko \in Orders(DOMAIN key_tags), vo \in Orders(DOMAIN stored_value_tags),
          lo \in Orders(DOMAIN trie_lengths) :
          file' = [exists |-> TRUE,
                   lines |-> file.lines
                             \o ReportLines(key_tags, stored_value_tags, trie_lengths,
                                            ko, vo, lo)]
    /\ pc' = "done"
    /\ UNCHANGED <<store, unvisited_nodes, key_tags, stored_value_tags, trie_lengths,
                   deleted_era_info, new_root_hash, largest_record,
                   committed, popped, delete_log, root_writes>>

Next ==
    \/ Start
    \/ PopMissing
    \/ PopUndecodable
    \/ VisitLeaf
    \/ VisitNode
    \/ VisitExtension
    \/ Finish

Spec == Init /\ [][Next]_vars

\* The run is one sequential thread: a step that can be taken is taken.
FairSpec == Spec /\ WF_vars(Next)

\* ------------------------------------------------- reference definitions
\* Number of elements of a sequence that satisfy a test given as a set
CountIn(seq, S) == Cardinality({i \in DOMAIN seq : seq[i] \in S})

\* How often a digest has been popped and decoded
Visits(d) == CountIn(popped, {d})

LeafDigests == {d \in Digests : store[d].kind = "Leaf"}
LeafVisits == CountIn(popped, LeafDigests)

\* Pointer of index i of record p that leads to d
EdgesInto(d) ==
    {e \in Reachable(state_root, store) \X (1 .. MaxChildren) :
        /\ e[2] \in DOMAIN Pointers(store[e[1]])
        /\ Pointers(store[e[1]])[e[2]] = d}

\* Every digest reachable from the root resolves and decodes
AllResolve == \A d \in Reachable(state_root, store) : store[d].kind \notin {"Absent", "Bad"}

\* No reachable record leads back to itself
Acyclic ==
    \A d \in Reachable(state_root, store) :
        \A i \in DOMAIN Pointers(store[d]) : d \notin Reachable(Pointers(store[d])[i], store)

WellFormed == AllResolve /\ Acyclic

\* Number of pointer paths from the root to d (defined when Acyclic)
RECURSIVE PathsTo(_)
RECURSIVE SumPaths(_)
SumPaths(E) ==
    IF E = {} THEN 0
    ELSE LET e == CHOOSE x \in E : TRUE IN PathsTo(e[1]) + SumPaths(E \ {e})
PathsTo(d) == (IF d = state_root THEN 1 ELSE 0) + SumPaths(EdgesInto(d))

RECURSIVE SumPathsOf(_)
SumPathsOf(S) ==
    IF S = {} THEN 0
    ELSE LET d == CHOOSE x \in S : TRUE IN PathsTo(d) + SumPathsOf(S \ {d})

RECURSIVE TotalLen(_, _)
TotalLen(tl, S) ==
    IF S = {} THEN 0
    ELSE LET x == CHOOSE y \in S : TRUE IN Len(tl[x]) + TotalLen(tl, S \ {x})
LengthsStored == TotalLen(trie_lengths, DOMAIN trie_lengths)

\* ------------------------------------------------------------------ C1
\* C1 as stated: over a store whose reachable digests all resolve and decode
\* and whose reference graph is acyclic, a completed traversal has visited
\* exactly the reachable digests, the root once and every other digest as
\* often as it has incoming pointers from reachable records.
C1_VisitsPerIncomingEdge ==
    (pc = "done" /\ WellFormed) =>
        \A d \in Digests :
            /\ (Visits(d) > 0) <=> (d \in Reachable(state_root, store))
            /\ Visits(d) = IF d = state_root THEN 1 ELSE Cardinality(EdgesInto(d))

\* C1 amended: under the same precondition a completed traversal has visited
\* exactly the reachable digests, each as often as there are pointer paths
\* from the root to it (the root once); no visited set is kept.
C1_VisitsPerPath ==
    (pc = "done" /\ WellFormed) =>
        \A d \in Digests :
            /\ (Visits(d) > 0) <=> (d \in Reachable(state_root, store))
            /\ Visits(d) = IF d \in Reachable(state_root, store) THEN PathsTo(d) ELSE 0
            /\ Visits(state_root) = 1

\* A completed traversal in which a record with one incoming pointer was
\* visited twice, because its only parent was.
C1_Witness ==
    /\ pc = "done"
    /\ WellFormed
    /\ \E d \in Digests : Cardinality(EdgesInto(d)) = 1 /\ Visits(d) = 2

\* ------------------------------------------------------------------ C2
\* C2: in every reachable state the key-tag counts, the value-tag counts and
\* the stored lengths each add up to the number of leaf visits so far.
C2_Sums ==
    /\ MapSum(key_tags) = LeafVisits
    /\ MapSum(stored_value_tags) = LeafVisits
    /\ LengthsStored = LeafVisits

\* One map entry grew by one, every other entry is as it was
OneCountMore(old, new) ==
    \E k \in DOMAIN new :
        /\ new[k] = Get(old, k, 0) + 1
        /\ DOMAIN new = (DOMAIN old) \cup {k}
        /\ \A x \in DOMAIN old : x # k => new[x] = old[x]

\* One list got one length appended, every other list is as it was
OneLengthMore(old, new, byte_len) ==
    \E k \in DOMAIN new :
        /\ new[k] = Append(Get(old, k, <<>>), byte_len)
        /\ DOMAIN new = (DOMAIN old) \cup {k}
        /\ \A x \in DOMAIN old : x # k => new[x] = old[x]

\* C2, per step: a step that visits a leaf adds one to one key-tag count and
\* to one value-tag count and appends the leaf's length to one pair list; any
\* other step leaves the three maps alone.
C2_Step ==
    IF popped' # popped /\ store[Top(popped')].kind = "Leaf"
    THEN /\ OneCountMore(key_tags, key_tags')
         /\ OneCountMore(stored_value_tags, stored_value_tags')
         /\ OneLengthMore(trie_lengths, trie_lengths', store[Top(popped')].len)
    ELSE UNCHANGED <<key_tags, stored_value_tags, trie_lengths>>

\* C2: the sums agree in every state and every step keeps the maps
\* append-only as described.
C2_StatsCountLeafVisits == [](C2_Sums) /\ [][C2_Step]_vars

\* Two leaf visits recorded under two different pairs, both counted.
C2_Witness ==
    /\ LeafVisits = 2
    /\ MapSum(key_tags) = 2
    /\ LengthsStored = 2
    /\ Cardinality(DOMAIN trie_lengths) = 2

\* ------------------------------------------------------------------ C3
LeavesInClosure == Reachable(state_root, store) \cap LeafDigests

\* C3 as stated: when a traversal completes, the leaf visits (and both count
\* sums) equal the number of Leaf records in the closure of the root.
C3_LeafVisitsEqualLeafNodes ==
    pc = "done" =>
        /\ LeafVisits = Cardinality(LeavesInClosure)
        /\ MapSum(key_tags) = Cardinality(LeavesInClosure)
        /\ MapSum(stored_value_tags) = Cardinality(LeavesInClosure)

\* C3 amended: when a traversal completes, the leaf visits (and both count
\* sums) equal the number of Leaf records in the closure of the root, each
\* counted once per pointer path from the root to it.
C3_LeafVisitsEqualLeafPaths ==
    (pc = "done" /\ Acyclic) =>
        /\ LeafVisits = SumPathsOf(LeavesInClosure)
        /\ MapSum(key_tags) = SumPathsOf(LeavesInClosure)
        /\ MapSum(stored_value_tags) = SumPathsOf(LeavesInClosure)

\* A completed traversal over a closure with one leaf that is reached over
\* three paths.
C3_Witness ==
    /\ pc = "done"
    /\ Acyclic
    /\ Cardinality(LeavesInClosure) = 1
    /\ LeafVisits = 3
    /\ MapSum(key_tags) = 3

\* ------------------------------------------------------------------ C4
Last(seq) == seq[Len(seq)]
Succeeded(entry) == entry.result.kind = "Deleted"

\* The root a delete request must carry when i-1 requests went before it:
\* the root returned by the latest successful one, else the starting root.
RECURSIVE CurrentRootBefore(_)
CurrentRootBefore(i) ==
    IF i = 1 THEN Root(state_root)
    ELSE IF Succeeded(delete_log[i - 1]) THEN delete_log[i - 1].result.root
         ELSE CurrentRootBefore(i - 1)

\* C4: every delete request carries the current root: the starting root if
\* no delete has succeeded yet, else the root the latest successful delete
\* returned; after a successful delete has returned another root than the
\* starting root, no later request carries the starting root.
C4_DeleteCarriesCurrentRoot ==
    /\ \A i \in DOMAIN delete_log : delete_log[i].root = CurrentRootBefore(i)
    /\ \A i, j \in DOMAIN delete_log :
          (i < j /\ Succeeded(delete_log[i])
                 /\ delete_log[i].result.root # Root(state_root))
              => delete_log[j].root # Root(state_root)

\* A second delete request that carries the root the first one returned.
C4_Witness ==
    /\ Len(delete_log) = 2
    /\ Succeeded(delete_log[1])
    /\ delete_log[2].root = delete_log[1].result.root
    /\ delete_log[2].root # Root(state_root)

\* ------------------------------------------------------------------ C5
DeletedKeys == {delete_log[i].key : i \in {j \in DOMAIN delete_log : Succeeded(delete_log[j])}}

\* C5: when a run completes after k successful deletions, the leaves under
\* the final root are the leaves under the starting root without those of
\* the k deleted keys, each kept leaf with its value, and no EraInfo leaf is
\* left under the final root.
C5_FinalRootLeaves ==
    pc = "done" =>
        /\ Cardinality(DeletedKeys) = deleted_era_info
        /\ RootLeaves(new_root_hash, store)
              = {l \in RootLeaves(Root(state_root), store) : l.key \notin DeletedKeys}
        /\ \A l \in RootLeaves(new_root_hash, store) : l.key.tag # "EraInfo"
        /\ \A k \in DeletedKeys :
              \E l \in RootLeaves(Root(state_root), store) : l.key = k

\* A completed run that deleted two keys.
C5_Witness ==
    /\ pc = "done"
    /\ deleted_era_info = 2
    /\ Cardinality(RootLeaves(Root(state_root), store)) = 2
    /\ RootLeaves(new_root_hash, store) = {}

\* ------------------------------------------------------------------ C6
\* The keys of the EraInfo leaves among the first n popped digests, in order
RECURSIVE ObsoleteKeysVisited(_)
ObsoleteKeysVisited(n) ==
    IF n = 0 THEN <<>>
    ELSE LET rec == store[popped[n]]
         IN  IF rec.kind = "Leaf" /\ rec.key.tag = "EraInfo"
             THEN Append(ObsoleteKeysVisited(n - 1), rec.key)
             ELSE ObsoleteKeysVisited(n - 1)

KeysRequested == [i \in DOMAIN delete_log |-> delete_log[i].key]

\* C6: in every state between two pops, one delete has been requested per
\* visit of an EraInfo leaf, the keys requested are the keys of the EraInfo
\* leaves in the order they were visited, and the result of the latest
\* request is already in place: the root is the one it returned.
C6_DeletesInVisitOrder ==
    /\ KeysRequested = ObsoleteKeysVisited(Len(popped))
    /\ (pc \in {"loop", "done"} /\ delete_log # <<>>)
          => (Succeeded(Last(delete_log)) /\ new_root_hash = Last(delete_log).result.root)
    /\ delete_log = <<>> => new_root_hash = Root(state_root)

\* Two different keys deleted, in the order their leaves were popped, with a
\* record that is not an EraInfo leaf popped in between or before.
C6_Witness ==
    /\ pc = "loop"
    /\ Len(delete_log) = 2
    /\ delete_log[1].key # delete_log[2].key
    /\ Len(popped) = 3
    /\ new_root_hash = delete_log[2].result.root

\* ------------------------------------------------------------------ C7
Failed(entry) == entry.result.kind # "Deleted"
SuccessfulRoots == {delete_log[i].result.root : i \in {j \in DOMAIN delete_log : Succeeded(delete_log[j])}}

\* A step in which delete_key answers anything but Deleted
DeleteFails == delete_log' # delete_log /\ Failed(Last(delete_log'))

\* C7, per step: the step in which a delete fails ends the run and changes
\* neither the root, the deletion counter, the report nor what the engine
\* has written; nothing is popped, deleted or written after an abort.
C7_Step ==
    /\ pc # "panicked"
    /\ DeleteFails =>
          /\ pc' = "panicked"
          /\ UNCHANGED <<new_root_hash, deleted_era_info, root_writes, file, committed>>

\* C7, per state: after a failed delete no report section is in the file,
\* and the deletions made before it stand.
C7_Aborted ==
    (delete_log # <<>> /\ Failed(Last(delete_log))) =>
        /\ pc = "panicked"
        /\ file.lines = <<>>
        /\ committed = SuccessfulRoots
        /\ deleted_era_info = Len(delete_log) - 1
        /\ new_root_hash = CurrentRootBefore(Len(delete_log))

\* C7: a delete that does not answer Deleted aborts the run on the spot.
C7_FailedDeleteAborts == [](C7_Aborted) /\ [][C7_Step]_vars

\* A run aborted by DoesNotExist after one deletion had succeeded.
C7_Witness ==
    /\ pc = "panicked"
    /\ Len(delete_log) = 2
    /\ delete_log[2].result.kind = "DoesNotExist"
    /\ deleted_era_info = 1
    /\ committed # {}
    /\ unvisited_nodes # <<>>

\* ------------------------------------------------------------------ C8
\* A step that pops a digest without a record, or with an undecodable one
PopsUnreadable == popped' # popped /\ store[Last(popped')].kind \in {"Absent", "Bad"}

\* C8, per step: such a step ends the run, records no statistics and issues
\* no delete; nothing is popped, deleted or written after an abort.
C8_Step ==
    /\ pc # "panicked"
    /\ PopsUnreadable =>
          /\ pc' = "panicked"
          /\ UNCHANGED <<key_tags, stored_value_tags, trie_lengths, delete_log,
                         new_root_hash, deleted_era_info, file, committed>>

\* C8, per state: a run whose last pop was unreadable is aborted, not
\* completed, and its report holds none of the three sections.
C8_Aborted ==
    (popped # <<>> /\ store[Last(popped)].kind \in {"Absent", "Bad"}) =>
        /\ pc = "panicked"
        /\ file.lines = <<>>
        /\ LengthsStored = LeafVisits

\* C8: a missing or undecodable record aborts the run on the spot.
C8_UnreadableRecordAborts == [](C8_Aborted) /\ [][C8_Step]_vars

\* A run aborted on an undecodable record with a digest left on the frontier.
C8_Witness ==
    /\ pc = "panicked"
    /\ Len(popped) = 2
    /\ store[Last(popped)].kind = "Bad"
    /\ unvisited_nodes # <<>>
    /\ file.lines = <<>>

\* ------------------------------------------------------------------ C9
\* A walk from the root that knows nothing of deletions, stopped after n
\* pops, at an unreadable record or at an empty stack: what it popped and
\* what is left on its stack.
RECURSIVE BlindWalk(_, _, _)
BlindWalk(stack, out, n) ==
    IF n = 0 \/ stack = <<>> THEN [popped |-> out, stack |-> stack]
    ELSE LET d == stack[Len(stack)]
             rest == SubSeq(stack, 1, Len(stack) - 1)
         IN  IF store[d].kind \in {"Absent", "Bad"}
             THEN [popped |-> Append(out, d), stack |-> rest]
             ELSE BlindWalk(rest \o Pointers(store[d]), Append(out, d), n - 1)

\* The leaf records of a sequence of digests, in order
RECURSIVE LeavesOf(_)
LeavesOf(seq) ==
    IF seq = <<>> THEN <<>>
    ELSE IF store[seq[1]].kind = "Leaf"
         THEN <<store[seq[1]]>> \o LeavesOf(Tail(seq))
         ELSE LeavesOf(Tail(seq))

Matching(leaves, Test(_)) == SelectSeq(leaves, Test)

\* The statistics of a sequence of leaves, computed per tag and per pair
BlindKeyTags(leaves) ==
    [t \in {leaves[i].key.tag : i \in DOMAIN leaves} |->
        Cardinality({i \in DOMAIN leaves : leaves[i].key.tag = t})]
BlindValueTags(leaves) ==
    [t \in {leaves[i].value : i \in DOMAIN leaves} |->
        Cardinality({i \in DOMAIN leaves : leaves[i].value = t})]
BlindLengths(leaves) ==
    [p \in {<<leaves[i].key.tag, leaves[i].value>> : i \in DOMAIN leaves} |->
        LET Same(l) == <<l.key.tag, l.value>> = p
            mine == SelectSeq(leaves, Same)
        IN  [i \in DOMAIN mine |-> mine[i].len]]

\* C9, per state: what the run has popped, what is on its frontier and what
\* it has counted are those of the walk without deletions after as many pops.
C9_AsBlindWalk ==
    pc # "start" =>
        LET blind == BlindWalk(<<state_root>>, <<>>, Len(popped))
            leaves == LeavesOf(popped)
        IN  /\ popped = blind.popped
            /\ unvisited_nodes = blind.stack
            /\ key_tags = BlindKeyTags(leaves)
            /\ stored_value_tags = BlindValueTags(leaves)
            /\ trie_lengths = BlindLengths(leaves)

\* C9, per step: the read view never changes, and the step that deletes
\* takes nothing but the popped leaf from the frontier.
C9_Step ==
    /\ store' = store
    /\ delete_log' # delete_log => unvisited_nodes' = Pop(unvisited_nodes)

Successes == Cardinality({i \in DOMAIN delete_log : Succeeded(delete_log[i])})

\* C10: delete_key is called only with the key of a visited EraInfo leaf; in
\* every state the deletion counter is the number of Deleted results so far
\* and the number of times the root was replaced; at completion it is the
\* number of visits of EraInfo leaves.
C10_DeletionCounter ==
    /\ \A i \in DOMAIN delete_log :
          /\ delete_log[i].key.tag = "EraInfo"
          /\ \E j \in DOMAIN popped :
                store[popped[j]].kind = "Leaf" /\ store[popped[j]].key = delete_log[i].key
    /\ deleted_era_info = Successes
    /\ deleted_era_info = root_writes
    /\ pc = "done" => deleted_era_info = Len(ObsoleteKeysVisited(Len(popped)))

\* A completed run with two deletions that also visited an Account leaf
\* without calling delete_key for it.
C10_Witness ==
    /\ pc = "done"
    /\ deleted_era_info = 2
    /\ root_writes = 2
    /\ LeafVisits = 2

\* ----------------------------------------------------------------- C11
\* The lines of a kind in a sequence of lines
LinesOf(lines, kind) == {i \in DOMAIN lines : lines[i].line = kind}
HeaderAt(lines, section) ==
    {i \in DOMAIN lines : lines[i] = [line |-> "header", section |-> section]}

\* C11 as stated: at completion the report ends with the summary line that
\* carries the deletion count, after the three sections.
C11_SummaryLineInReport ==
    pc = "done" =>
        /\ file.lines # <<>>
        /\ Last(file.lines) = [line |-> "deleted", n |-> deleted_era_info]

\* C11 amended: at completion the report holds the key-tag section, then the
\* value-tag section, then the lengths section and nothing else; the summary
\* line with the deletion count is on standard output, printed before the
\* line with the record count, not in the report.
C11_ThreeSectionsSummaryOnStdout ==
    pc = "done" =>
        \E h1, h2, h3 \in DOMAIN file.lines :
            /\ h1 = 1 /\ h1 < h2 /\ h2 < h3
            /\ HeaderAt(file.lines, "key_tag") = {h1}
            /\ HeaderAt(file.lines, "stored_value_tag") = {h2}
            /\ HeaderAt(file.lines, "lengths") = {h3}
            /\ LinesOf(file.lines, "key_tag") = (h1 + 1) .. (h2 - 1)
            /\ LinesOf(file.lines, "stored_value_tag") = (h2 + 1) .. (h3 - 1)
            /\ LinesOf(file.lines, "lengths") = (h3 + 1) .. Len(file.lines)
            /\ LinesOf(file.lines, "deleted") = {}
            /\ {stdout[i] : i \in LinesOf(stdout, "deleted")}
                  = {[line |-> "deleted", n |-> deleted_era_info]}
            /\ stdout[Len(stdout) - 1] = [line |-> "deleted", n |-> deleted_era_info]

\* A completed run with one deletion and rows in each of the three sections.
C11_Witness ==
    /\ pc = "done"
    /\ deleted_era_info = 1
    /\ Len(file.lines) = 9
    /\ Cardinality(LinesOf(file.lines, "lengths")) = 2

\* ----------------------------------------------------------------- C12
\* C12: the report file is neither created nor overwritten by a step that
\* does not complete the traversal, so a run that aborts leaves the file as
\* it found it.
C12_FileUntouchedUntilSuccess == [][pc' # "done" => file' = file]_vars

\* ----------------------------------------------------------------- C13
LengthRowsOf(lines) == {lines[i] : i \in LinesOf(lines, "lengths")}

\* C13: at completion the pairs with at least one recorded length are the
\* pairs that have a row, one row each; a row's total is the sum of the
\* pair's lengths, its average the total divided by their number, rounded
\* down, its max the largest of them; so average * count <= total <=
\* average * count + count and max >= average.
C13_LengthRows ==
    pc = "done" =>
        LET rows == LengthRowsOf(file.lines)
            recorded == {p \in DOMAIN trie_lengths : trie_lengths[p] # <<>>}
        IN  /\ {<<r.key_tag, r.stored_value_tag>> : r \in rows} = recorded
            /\ Cardinality(LinesOf(file.lines, "lengths")) = Cardinality(recorded)
            /\ \A r \in rows :
                  LET lengths == trie_lengths[<<r.key_tag, r.stored_value_tag>>]
                      count == Len(lengths)
                  IN  /\ r.total_len = SeqSum(lengths)
                      /\ r.average_len * count <= r.total_len
                      /\ r.total_len < r.average_len * count + count
                      /\ r.total_len <= r.average_len * count + count
                      /\ \E i \in DOMAIN lengths : r.max_len = lengths[i]
                      /\ \A i \in DOMAIN lengths : lengths[i] <= r.max_len
                      /\ r.max_len >= r.average_len

\* A completed run with a pair whose lengths are 2 then 1: total 3, average
\* 1, max 2.
C13_Witness ==
    /\ pc = "done"
    /\ \E r \in LengthRowsOf(file.lines) :
          /\ trie_lengths[<<r.key_tag, r.stored_value_tag>>] = <<2, 1>>
          /\ r.total_len = 3 /\ r.average_len = 1 /\ r.max_len = 2

\* ----------------------------------------------------------------- C14
\* The walk without deletions, run to its end (or to the bound on pops)
FullBlindWalk == BlindWalk(<<state_root>>, <<>>, MaxPops)

\* C14: the aggregator state at the end of a traversal in which no EraInfo
\* leaf was visited is a function of the store and the root alone (the
\* statistics of the leaves of the walk, lengths in walk order), so two
\* traversals of the same root over the same store end with the same state.
C14_StatsDependOnStoreOnly ==
    (pc = "done" /\ ObsoleteKeysVisited(Len(popped)) = <<>>) =>
        LET leaves == LeavesOf(FullBlindWalk.popped)
        IN  /\ FullBlindWalk.stack = <<>>
            /\ key_tags = BlindKeyTags(leaves)
            /\ stored_value_tags = BlindValueTags(leaves)
            /\ trie_lengths = BlindLengths(leaves)

\* A completed traversal without deletions in which one pair has two
\* different lengths, so that their order shows.
C14_Witness ==
    /\ pc = "done"
    /\ delete_log = <<>>
    /\ \E p \in DOMAIN trie_lengths :
          Len(trie_lengths[p]) = 2 /\ trie_lengths[p][1] # trie_lengths[p][2]

\* ----------------------------------------------------------------- C15
\* What a decoded record puts on the frontier
Pushed(rec) ==
    CASE rec.kind = "Extension" -> <<rec.pointer>>
      [] rec.kind = "Node" -> [i \in 1 .. Len(rec.pointers) |-> rec.pointers[i]]
      [] OTHER -> <<>>

\* C15, per step: the digest popped is the top of the stack; a leaf pushes
\* nothing, an extension its child, a branch all its children in ascending
\* index order on top of what was left.
C15_Step ==
    popped' # popped =>
        /\ Last(popped') = Top(unvisited_nodes)
        /\ unvisited_nodes' = Pop(unvisited_nodes) \o Pushed(store[Last(popped')])

\* The records under d in the order of a depth-first walk that takes the
\* children of a branch from the highest index down (defined when Acyclic)
RECURSIVE DepthFirst(_)
RECURSIVE DepthFirstFrom(_, _)
DepthFirstFrom(pointers, i) ==
    IF i = 0 THEN <<>> ELSE DepthFirst(pointers[i]) \o DepthFirstFrom(pointers, i - 1)
DepthFirst(d) == <<d>> \o DepthFirstFrom(Pushed(store[d]), Len(Pushed(store[d])))

\* C15, at completion: the children of a branch were popped in descending
\* index order, each with its whole subtree before the next lower sibling.
C15_DescendingSubtrees == (pc = "done" /\ Acyclic) => popped = DepthFirst(state_root)

\* C15: the dispatch on a decoded node and the pop order that follows.
C15_Dispatch == [](C15_DescendingSubtrees) /\ [][C15_Step]_vars

\* A completed walk of a branch whose second child, an extension, was
\* popped with its subtree before the first child.
C15_Witness ==
    /\ pc = "done"
    /\ store[0].kind = "Node" /\ store[0].pointers = <<1, 2>>
    /\ store[2].kind = "Extension"
    /\ popped = <<0, 2, 1, 1>>

\* ----------------------------------------------------------------- C16
\* The pops a walk of an acyclic store takes
PopsNeeded == SumPathsOf(Reachable(state_root, store))

\* C16, termination: over an acyclic store whose reachable digests resolve
\* and decode (and whose walk fits the bound on pops), the run ends with an
\* empty frontier unless a delete fails.
C16_Terminates ==
    (pc = "start" /\ WellFormed /\ PopsNeeded <= MaxPops)
        ~> \/ pc = "done" /\ unvisited_nodes = <<>>
           \/ pc = "panicked" /\ delete_log # <<>> /\ Failed(Last(delete_log))

\* C16, no cycle detection: when a reachable record leads back to itself
\* the frontier is never empty and the run never completes.
C16_CycleNeverCompletes ==
    (pc # "start" /\ ~Acyclic) => (unvisited_nodes # <<>> /\ pc # "done")

\* C16, empty trie: a root that is a branch without children completes with
\* no leaf visit, no deletion and empty report sections.
C16_EmptyTrie ==
    (pc # "start" /\ store[state_root] = [kind |-> "Node", pointers |-> <<>>]) =>
        /\ pc \in {"loop", "done"}
        /\ LeafVisits = 0
        /\ deleted_era_info = 0
        /\ pc = "done" => Len(file.lines) = 3

\* C16: termination on acyclic stores, none on cyclic ones.
C16_Termination == [](C16_CycleNeverCompletes /\ C16_EmptyTrie) /\ C16_Terminates

\* A completed walk of the acyclic store that takes the most pops.
C16_Witness ==
    /\ pc = "done"
    /\ Acyclic
    /\ Len(popped) = 7
    /\ deleted_era_info = 0

\* ----------------------------------------------------------------- C17
\* C17, per step: an extension or branch leaves the statistics, the root and
\* the deletion counter alone; a leaf whose key is no EraInfo key leaves the
\* root, the counter and the rest of the frontier alone and requests no
\* delete; the root changes only to the root a successful delete of this
\* step returned.
C17_Step ==
    /\ (popped' # popped /\ store[Last(popped')].kind \in {"Extension", "Node"}) =>
          UNCHANGED <<key_tags, stored_value_tags, trie_lengths,
                      new_root_hash, deleted_era_info, delete_log>>
    /\ (popped' # popped /\ store[Last(popped')].kind = "Leaf"
                         /\ store[Last(popped')].key.tag # "EraInfo") =>
          /\ UNCHANGED <<new_root_hash, deleted_era_info, delete_log, committed>>
          /\ unvisited_nodes' = Pop(unvisited_nodes)
    /\ new_root_hash' # new_root_hash =>
          /\ Len(delete_log') = Len(delete_log) + 1
          /\ Succeeded(Last(delete_log'))
          /\ new_root_hash' = Last(delete_log').result.root

\* C17: the frame of each arm of the match.
C17_Frames == [][C17_Step]_vars

\* An Account leaf visited after a deletion: the root is still the one the
\* deletion returned, and no second delete was requested.
C17_Witness ==
    /\ pc = "done"
    /\ Len(popped) = 3
    /\ store[popped[2]].kind = "Leaf" /\ store[popped[2]].key.tag = "EraInfo"
    /\ store[popped[3]].kind = "Leaf" /\ store[popped[3]].key.tag = "Account"
    /\ Len(delete_log) = 1
    /\ new_root_hash = delete_log[1].result.root

\* ----------------------------------------------------------------- C18
\* Requests for a key that an earlier request of the run has deleted
Repeated == {j \in DOMAIN delete_log :
                \E i \in 1 .. (j - 1) : Succeeded(delete_log[i])
                                        /\ delete_log[i].key = delete_log[j].key}

\* C18: every visit of an EraInfo leaf requests a delete, also for a key
\* deleted before; such a request goes against a root without the key, the
\* engine does not answer Deleted (DoesNotExist, by its contract), and the
\* run is aborted, with the second visit already in the statistics.
C18_RepeatedDeleteAborts ==
    /\ Len(delete_log) = Len(ObsoleteKeysVisited(Len(popped)))
    /\ \A j \in Repeated :
          /\ delete_log[j].key \in delete_log[j].root.deleted
          /\ Failed(delete_log[j])
          /\ \A r \in delete_key(delete_log[j].root, delete_log[j].key, store) :
                r.kind # "Deleted"
          /\ \E r \in delete_key(delete_log[j].root, delete_log[j].key, store) :
                r.kind = "DoesNotExist"
          /\ j = Len(delete_log)
          /\ pc = "panicked"
          /\ key_tags["EraInfo"] = Len(delete_log)
          /\ LengthsStored = LeafVisits

\* One EraInfo leaf reached over two paths: deleted at the first visit,
\* DoesNotExist and abort at the second, two visits counted.
C18_Witness ==
    /\ pc = "panicked"
    /\ Len(delete_log) = 2
    /\ Repeated = {2}
    /\ delete_log[2].result.kind = "DoesNotExist"
    /\ Visits(popped[Len(popped)]) = 2
    /\ key_tags["EraInfo"] = 2

\* ----------------------------------------------------------------- C19
\* C19: at the end of a completed run the record count that is printed is
\* the number of digests popped from the frontier.
C19_RecordCountIsPops ==
    pc = "done" =>
        /\ record_count = Len(popped)
        /\ Last(stdout) = [line |-> "processed", n |-> Len(popped)]

====
